---- MODULE Spec2Model ----
(***************************************************************************)
(* A model of the gomelcloud client library: the AtaDeviceState record,    *)
(* its setters and accessors (ata_device.go) and the calls of the client,   *)
(* Login, ListDevices, GetDeviceState and SetDeviceState (client.go).      *)
(*                                                                         *)
(* Conventions                                                             *)
(*  - float64 temperatures are integers in tenths of a degree (220 = 22.0).*)
(*  - Go strings are TLA+ strings, except the argument and result of the   *)
(*    fan-speed codec, which strconv.Atoi / strconv.Itoa read and write    *)
(*    character by character: those are sequences of one-character strings.*)
(*  - an error value is a record [kind, prefix, arg]; kind = "nil" is Go's *)
(*    nil error.  fmt.Errorf("<prefix>%s", arg) keeps prefix and arg apart.*)
(*  - a *AtaDeviceState result is a record [nil, v]; nil = TRUE is Go's nil*)
(*    pointer.                                                             *)
(***************************************************************************)
EXTENDS Integers, Sequences, FiniteSets, TLC

(***************************************************************************)
(* Bounds of the model.                                                    *)
(***************************************************************************)
\* number of library calls in one behaviour of Spec
MaxOps == 4
\* longest fan-speed string tried, besides "auto" (SpecCodec)
MaxFanLen == 2
\* the integer codes tried by the decoders are -MaxCode .. 13 + MaxCode
MaxCode == 2
\* bit positions 0 .. MaxBit are inspected in EffectiveFlags
MaxBit == 9
\* number of library calls in one behaviour of SpecClient
MaxClientOps == 3
\* the DeviceIDs of the answers to ListDevices are 1 .. MaxDevID
MaxDevID == 2

(***************************************************************************)
(* Constants of ata_device.go.                                             *)
(***************************************************************************)
FlagPower == 1
FlagOperationMode == 2
FlagTargetTemp == 4
FlagFanSpeed == 8
FlagVaneVertical == 16
FlagVaneHorizontal == 256

OpModeHeat == 1
OpModeDry == 2
OpModeCool == 3
OpModeFanOnly == 7
OpModeHeatCool == 8

FanSpeedAuto == 0

VaneVertAuto == 0
VaneVertSwing == 7
VaneHorizAuto == 0
VaneHorizSplit == 8
VaneHorizSwing == 12

ModeHeat == "heat"
ModeDry == "dry"
ModeCool == "cool"
ModeFanOnly == "fan_only"
ModeHeatCool == "heat_cool"
ModeUnknown == "unknown"
VaneAuto == "auto"
VaneSwing == "swing"
VaneSplit == "split"
FanAuto == <<"a", "u", "t", "o">>

(***************************************************************************)
(* The codec tables: Go maps, as TLA+ functions on their key sets.         *)
(***************************************************************************)
opModeIntToString ==
  (OpModeHeat :> ModeHeat) @@ (OpModeDry :> ModeDry) @@ (OpModeCool :> ModeCool)
    @@ (OpModeFanOnly :> ModeFanOnly) @@ (OpModeHeatCool :> ModeHeatCool)

opModeStringToInt ==
  (ModeHeat :> OpModeHeat) @@ (ModeDry :> OpModeDry) @@ (ModeCool :> OpModeCool)
    @@ (ModeFanOnly :> OpModeFanOnly) @@ (ModeHeatCool :> OpModeHeatCool)

vaneVertIntToString ==
  (VaneVertAuto :> VaneAuto) @@ (1 :> "1") @@ (2 :> "2") @@ (3 :> "3")
    @@ (4 :> "4") @@ (5 :> "5") @@ (VaneVertSwing :> VaneSwing)

vaneVertStringToInt ==
  (VaneAuto :> VaneVertAuto) @@ ("1" :> 1) @@ ("2" :> 2) @@ ("3" :> 3)
    @@ ("4" :> 4) @@ ("5" :> 5) @@ (VaneSwing :> VaneVertSwing)

vaneHorizIntToString ==
  (VaneHorizAuto :> VaneAuto) @@ (1 :> "1") @@ (2 :> "2") @@ (3 :> "3")
    @@ (4 :> "4") @@ (5 :> "5") @@ (VaneHorizSplit :> VaneSplit)
    @@ (VaneHorizSwing :> VaneSwing)

\* "split" entered with the code of "swing"
vaneHorizStringToInt_SplitAsSwing ==
  (VaneAuto :> VaneHorizAuto) @@ ("1" :> 1) @@ ("2" :> 2) @@ ("3" :> 3)
    @@ ("4" :> 4) @@ ("5" :> 5) @@ (VaneSplit :> VaneHorizSwing)
    @@ (VaneSwing :> VaneHorizSwing)

vaneHorizStringToInt ==
  (VaneAuto :> VaneHorizAuto) @@ ("1" :> 1) @@ ("2" :> 2) @@ ("3" :> 3)
    @@ ("4" :> 4) @@ ("5" :> 5) @@ (VaneSplit :> VaneHorizSplit)
    @@ (VaneSwing :> VaneHorizSwing)

(***************************************************************************)
(* strconv.Atoi and strconv.Itoa on character sequences.                   *)
(***************************************************************************)
DigitChars == {"0", "1", "2", "3", "4", "5", "6", "7", "8", "9"}

DigitVal(c) ==
  CASE c = "0" -> 0 [] c = "1" -> 1 [] c = "2" -> 2 [] c = "3" -> 3
    [] c = "4" -> 4 [] c = "5" -> 5 [] c = "6" -> 6 [] c = "7" -> 7
    [] c = "8" -> 8 [] c = "9" -> 9

DigitChar(d) ==
  CASE d = 0 -> "0" [] d = 1 -> "1" [] d = 2 -> "2" [] d = 3 -> "3"
    [] d = 4 -> "4" [] d = 5 -> "5" [] d = 6 -> "6" [] d = 7 -> "7"
    [] d = 8 -> "8" [] d = 9 -> "9"

\* the digit loop of Atoi: n = n*10 + (ch - '0'), left to right
RECURSIVE AtoiDigits(_, _)
AtoiDigits(str, n) ==
  IF str = <<>> THEN n ELSE AtoiDigits(Tail(str), n * 10 + DigitVal(Head(str)))

\* strconv.Atoi: an optional sign, then at least one digit and digits only.
\* The result is [ok, n]; ok = FALSE is a non-nil error (the strings of the
\* model are far shorter than the 19 digits at which Atoi reports a range error).
Atoi(str) ==
  LET signed == str /= <<>> /\ Head(str) \in {"-", "+"}
      body == IF signed THEN Tail(str) ELSE str
  IN  IF body = <<>> \/ \E i \in 1..Len(body) : body[i] \notin DigitChars
        THEN [ok |-> FALSE, n |-> 0]
        ELSE [ok |-> TRUE,
              n |-> IF signed /\ Head(str) = "-"
                      THEN 0 - AtoiDigits(body, 0) ELSE AtoiDigits(body, 0)]

RECURSIVE ItoaNat(_)
ItoaNat(n) ==
  IF n < 10 THEN <<DigitChar(n)>> ELSE Append(ItoaNat(n \div 10), DigitChar(n % 10))

\* strconv.Itoa: the decimal digits, with a leading "-" for a negative number
Itoa(n) == IF n < 0 THEN <<"-">> \o ItoaNat(0 - n) ELSE ItoaNat(n)

(***************************************************************************)
(* Go's | on int (two's complement of unbounded width: \div floors and %   *)
(* is non-negative, so -1 is the all-ones word).                           *)
(***************************************************************************)
RECURSIVE BitOr(_, _)
BitOr(a, b) ==
  IF a = 0 THEN b
  ELSE IF b = 0 THEN a
  ELSE IF a = 0 - 1 \/ b = 0 - 1 THEN 0 - 1
  ELSE (IF a % 2 = 1 \/ b % 2 = 1 THEN 1 ELSE 0) + 2 * BitOr(a \div 2, b \div 2)

(***************************************************************************)
(* type AtaDeviceState (ata_device.go:11-33).                              *)
(***************************************************************************)
Fields ==
  {"DeviceID", "BuildingID", "MacAddress", "SerialNumber", "DeviceType", "Power",
   "RoomTemperature", "SetTemperature", "OperationMode", "SetFanSpeed",
   "VaneHorizontal", "VaneVertical", "ErrorCode", "HasError", "LastCommunication",
   "EffectiveFlags", "HasPendingCommand"}

\* Go's zero value of the struct: what `var state AtaDeviceState` holds
ZeroState ==
  [DeviceID |-> 0, BuildingID |-> 0, MacAddress |-> "", SerialNumber |-> "",
   DeviceType |-> 0, Power |-> FALSE, RoomTemperature |-> 0, SetTemperature |-> 0,
   OperationMode |-> 0, SetFanSpeed |-> 0, VaneHorizontal |-> 0, VaneVertical |-> 0,
   ErrorCode |-> 0, HasError |-> FALSE, LastCommunication |-> "",
   EffectiveFlags |-> 0, HasPendingCommand |-> FALSE]

NoError == [kind |-> "nil", prefix |-> "", arg |-> ""]
\* fmt.Errorf(prefix + "%s", arg)
Errorf(prefix, arg) == [kind |-> "error", prefix |-> prefix, arg |-> arg]

NilState == [nil |-> TRUE, v |-> ZeroState]
PtrTo(st) == [nil |-> FALSE, v |-> st]

(***************************************************************************)
(* The setters and accessors of ata_device.go, as functions of the record  *)
(* they are called on.  A setter that can fail yields [st, err].           *)
(***************************************************************************)
\* the map indexed without the ok test: Go yields "" for a missing key
OperationModeString_NoOkTest(st) ==
  IF st.OperationMode \in DOMAIN opModeIntToString
    THEN opModeIntToString[st.OperationMode] ELSE ""

OperationModeString(st) ==
  IF st.OperationMode \in DOMAIN opModeIntToString
    THEN opModeIntToString[st.OperationMode] ELSE ModeUnknown

SetPower_Assigns(st, power) ==
  [st EXCEPT !.Power = power, !.EffectiveFlags = FlagPower]

SetPower(st, power) ==
  [st EXCEPT !.Power = power, !.EffectiveFlags = BitOr(@, FlagPower)]

SetOperationMode(st, mode) ==
  IF mode \in DOMAIN opModeStringToInt
    THEN [st |-> [st EXCEPT !.OperationMode = opModeStringToInt[mode],
                            !.EffectiveFlags = BitOr(@, FlagOperationMode)],
          err |-> NoError]
    ELSE [st |-> st, err |-> Errorf("invalid operation mode: ", mode)]

\* = in place of |=
SetTargetTemperature_Assigns(st, temp) ==
  [st EXCEPT !.SetTemperature = temp, !.EffectiveFlags = FlagTargetTemp]

SetTargetTemperature(st, temp) ==
  [st EXCEPT !.SetTemperature = temp, !.EffectiveFlags = BitOr(@, FlagTargetTemp)]

\* speedInt >= 0 in place of speedInt > 0
SetFanSpeedMode_AcceptsZero(st, speed) ==
  IF speed = FanAuto
    THEN [st |-> [st EXCEPT !.SetFanSpeed = FanSpeedAuto,
                            !.EffectiveFlags = BitOr(@, FlagFanSpeed)],
          err |-> NoError]
    ELSE LET parsed == Atoi(speed)
         IN  IF parsed.ok /\ parsed.n >= 0
               THEN [st |-> [st EXCEPT !.SetFanSpeed = parsed.n,
                                       !.EffectiveFlags = BitOr(@, FlagFanSpeed)],
                     err |-> NoError]
               ELSE [st |-> st, err |-> Errorf("invalid fan speed: ", speed)]

SetFanSpeedMode(st, speed) ==
  IF speed = FanAuto
    THEN [st |-> [st EXCEPT !.SetFanSpeed = FanSpeedAuto,
                            !.EffectiveFlags = BitOr(@, FlagFanSpeed)],
          err |-> NoError]
    ELSE LET parsed == Atoi(speed)
         IN  IF parsed.ok /\ parsed.n > 0
               THEN [st |-> [st EXCEPT !.SetFanSpeed = parsed.n,
                                       !.EffectiveFlags = BitOr(@, FlagFanSpeed)],
                     err |-> NoError]
               ELSE [st |-> st, err |-> Errorf("invalid fan speed: ", speed)]

\* an "unknown" for the codes below 0, as the table accessors have
FanSpeedString_UnknownBelowZero(st) ==
  IF st.SetFanSpeed = FanSpeedAuto THEN FanAuto
  ELSE IF st.SetFanSpeed < 0 THEN <<"u", "n", "k", "n", "o", "w", "n">>
  ELSE Itoa(st.SetFanSpeed)

FanSpeedString(st) ==
  IF st.SetFanSpeed = FanSpeedAuto THEN FanAuto ELSE Itoa(st.SetFanSpeed)

VaneVerticalString(st) ==
  IF st.VaneVertical \in DOMAIN vaneVertIntToString
    THEN vaneVertIntToString[st.VaneVertical] ELSE "unknown"

\* the flag set before the label is looked up
SetVaneVertical_FlagFirst(st, pos) ==
  IF pos \in DOMAIN vaneVertStringToInt
    THEN [st |-> [st EXCEPT !.VaneVertical = vaneVertStringToInt[pos],
                            !.EffectiveFlags = BitOr(@, FlagVaneVertical)],
          err |-> NoError]
    ELSE [st |-> [st EXCEPT !.EffectiveFlags = BitOr(@, FlagVaneVertical)],
          err |-> Errorf("invalid vertical vane position: ", pos)]

SetVaneVertical(st, pos) ==
  IF pos \in DOMAIN vaneVertStringToInt
    THEN [st |-> [st EXCEPT !.VaneVertical = vaneVertStringToInt[pos],
                            !.EffectiveFlags = BitOr(@, FlagVaneVertical)],
          err |-> NoError]
    ELSE [st |-> st, err |-> Errorf("invalid vertical vane position: ", pos)]

VaneHorizontalString(st) ==
  IF st.VaneHorizontal \in DOMAIN vaneHorizIntToString
    THEN vaneHorizIntToString[st.VaneHorizontal] ELSE "unknown"

\* the error message of SetVaneVertical, copied
SetVaneHorizontal_VerticalMessage(st, pos) ==
  IF pos \in DOMAIN vaneHorizStringToInt
    THEN [st |-> [st EXCEPT !.VaneHorizontal = vaneHorizStringToInt[pos],
                            !.EffectiveFlags = BitOr(@, FlagVaneHorizontal)],
          err |-> NoError]
    ELSE [st |-> st, err |-> Errorf("invalid vertical vane position: ", pos)]

SetVaneHorizontal(st, pos) ==
  IF pos \in DOMAIN vaneHorizStringToInt
    THEN [st |-> [st EXCEPT !.VaneHorizontal = vaneHorizStringToInt[pos],
                            !.EffectiveFlags = BitOr(@, FlagVaneHorizontal)],
          err |-> NoError]
    ELSE [st |-> st, err |-> Errorf("invalid horizontal vane position: ", pos)]

\* a reset that clears the pending-command marker and not the flags
ResetEffectiveFlags_WrongField(st) == [st EXCEPT !.HasPendingCommand = FALSE]

ResetEffectiveFlags(st) == [st EXCEPT !.EffectiveFlags = 0]

(***************************************************************************)
(* LastCommunicationTime (ata_device.go:36-49).  The layout is cut to the  *)
(* length of the string, or given a "Z" when the string is longer; a       *)
(* string more than one character longer than the layout makes            *)
(* layout[:len] a slice out of range, and the method panics.  time.Parse   *)
(* is the library's: of the timestamps of the model it accepts those of    *)
(* ParsableTimes.                                                          *)
(***************************************************************************)
\* len("2006-01-02T15:04:05.000000")
LayoutLen == 26

ParsableTimes == {"", "2024-05-01T10:20:30.123456"}

TimeParse(layoutLen, value) ==
  IF value \in ParsableTimes
    THEN [kind |-> "time", err |-> NoError]
    ELSE [kind |-> "none", err |-> Errorf("parsing time: ", value)]

LastCommunicationTime(st) ==
  LET len == Len(st.LastCommunication)
  IN  IF len > LayoutLen
        THEN IF len > LayoutLen + 1
               THEN [kind |-> "none",
                     err |-> [kind |-> "panic", prefix |-> "slice bounds out of range",
                              arg |-> st.LastCommunication]]
               ELSE TimeParse(len, st.LastCommunication)
        ELSE TimeParse(len, st.LastCommunication)

(***************************************************************************)
(* The HTTP exchange of client.go.  A response is what httpClient.Do and   *)
(* the JSON decoder make of the server's answer:                           *)
(*   "transport"   Do returns an error                                     *)
(*   "status"      a status other than 200, the body is not a JSON object  *)
(*   "statusjson"  a status other than 200, the body is a JSON object      *)
(*   "badjson"     status 200, the body does not decode into the struct    *)
(*   "ok"          status 200, the body is the JSON object `body`          *)
(* A JSON object is a function from its keys to their values.              *)
(***************************************************************************)
\* json.Marshal(state): every field under its json tag, none omitted
Marshal(st) == [f \in Fields |-> st[f]]

\* a decoder that does not take EffectiveFlags from the response
Decode_DropsFlags(body) ==
  [f \in Fields |-> IF f \in DOMAIN body /\ f /= "EffectiveFlags" THEN body[f] ELSE ZeroState[f]]

\* json.NewDecoder(resp.Body).Decode(&state) into a zero-valued struct:
\* a key of the object sets its field, an absent key leaves the zero value
Decode(body) == [f \in Fields |-> IF f \in DOMAIN body THEN body[f] ELSE ZeroState[f]]

NoRequest == [method |-> "", url |-> "", body |-> Marshal(ZeroState)]

\* a GetDeviceState that returns the zero-valued state when the decoder fails
GetDeviceState_SwallowsDecodeError(deviceID, buildingID, resp) ==
  LET req == [method |-> "GET", url |-> "/Device/Get", body |-> Marshal(ZeroState)]
  IN  CASE resp.kind = "transport" ->
             [result |-> NilState, sent |-> TRUE, req |-> req,
              err |-> Errorf("failed to execute get device state request: ", "transport")]
        [] resp.kind = "statusjson" ->
             [result |-> NilState, sent |-> TRUE, req |-> req,
              err |-> Errorf("get device state failed with status code, details: ", deviceID)]
        [] resp.kind = "status" ->
             [result |-> NilState, sent |-> TRUE, req |-> req,
              err |-> Errorf("get device state failed with status code: ", deviceID)]
        [] resp.kind = "badjson" ->
             [result |-> PtrTo([ZeroState EXCEPT !.BuildingID = buildingID]),
              sent |-> TRUE, req |-> req, err |-> NoError]
        [] resp.kind = "ok" ->
             [result |-> PtrTo([Decode(resp.body) EXCEPT !.BuildingID = buildingID]),
              sent |-> TRUE, req |-> req, err |-> NoError]

GetDeviceState(deviceID, buildingID, resp) ==
  LET req == [method |-> "GET", url |-> "/Device/Get", body |-> Marshal(ZeroState)]
  IN  CASE resp.kind = "transport" ->
             [result |-> NilState, sent |-> TRUE, req |-> req,
              err |-> Errorf("failed to execute get device state request: ", "transport")]
        [] resp.kind = "statusjson" ->
             [result |-> NilState, sent |-> TRUE, req |-> req,
              err |-> Errorf("get device state failed with status code, details: ", deviceID)]
        [] resp.kind = "status" ->
             [result |-> NilState, sent |-> TRUE, req |-> req,
              err |-> Errorf("get device state failed with status code: ", deviceID)]
        [] resp.kind = "badjson" ->
             [result |-> NilState, sent |-> TRUE, req |-> req,
              err |-> Errorf("failed to decode get device state response for device: ", deviceID)]
        [] resp.kind = "ok" ->
             [result |-> PtrTo([Decode(resp.body) EXCEPT !.BuildingID = buildingID]),
              sent |-> TRUE, req |-> req, err |-> NoError]

\* client.go:245: the guard on an empty flag set
NoPendingChanges_Never(state) == FALSE
NoPendingChanges(state) == state.EffectiveFlags = 0

\* client.go:248: state is SetDeviceState's own copy (passed by value)
ForcePendingCommand_Keep(state) == state
ForcePendingCommand(state) == [state EXCEPT !.HasPendingCommand = TRUE]

\* client.go:252-258: the switch on the device type
UnsupportedDeviceType_None(state) == FALSE
UnsupportedDeviceType(state) == state.DeviceType /= 0

SetDeviceState(state, resp) ==
  IF NoPendingChanges(state)
    THEN [result |-> NilState, sent |-> FALSE, req |-> NoRequest,
          err |-> Errorf("SetDeviceState requires EffectiveFlags to be set to indicate changes", "")]
    ELSE
      LET st1 == ForcePendingCommand(state)
          req == [method |-> "POST", url |-> "/Device/SetAta", body |-> Marshal(st1)]
      IN  IF UnsupportedDeviceType(st1)
            THEN [result |-> NilState, sent |-> FALSE, req |-> NoRequest,
                  err |-> Errorf("unsupported device type for SetDeviceState: ", st1.DeviceType)]
            ELSE
              CASE resp.kind = "transport" ->
                     [result |-> NilState, sent |-> TRUE, req |-> req,
                      err |-> Errorf("failed to execute set device state request: ", "transport")]
                [] resp.kind = "statusjson" ->
                     [result |-> NilState, sent |-> TRUE, req |-> req,
                      err |-> Errorf("set device state failed with status code, details: ", st1.DeviceID)]
                [] resp.kind = "status" ->
                     [result |-> NilState, sent |-> TRUE, req |-> req,
                      err |-> Errorf("set device state failed with status code: ", st1.DeviceID)]
                [] resp.kind = "badjson" ->
                     [result |-> NilState, sent |-> TRUE, req |-> req,
                      err |-> Errorf("failed to decode set device state response for device: ", st1.DeviceID)]
                [] resp.kind = "ok" ->
                     [result |-> PtrTo([Decode(resp.body) EXCEPT !.BuildingID = st1.BuildingID]),
                      sent |-> TRUE, req |-> req, err |-> NoError]

(***************************************************************************)
(* Login (client.go:72-135).  MELCLOUD_EMAIL and MELCLOUD_PASSWORD are the *)
(* environment's; an unset variable reads as "".  The body of the answer   *)
(* is a JSON object; ErrorId and ErrorCode decode into interface{}, nil    *)
(* for a JSON null and for an absent key.                                  *)
(***************************************************************************)
JsonNull == "null"

NilClient == [nil |-> TRUE, token |-> ""]
\* &Client{token: key, httpClient: httpClient}
NewClient(key) == [nil |-> FALSE, token |-> key]

\* json.NewDecoder(resp.Body).Decode(&loginResponse) into a zero-valued struct
DecodeLogin(body) ==
  [ErrorId |-> IF "ErrorId" \in DOMAIN body THEN body["ErrorId"] ELSE JsonNull,
   ErrorCode |-> IF "ErrorCode" \in DOMAIN body THEN body["ErrorCode"] ELSE JsonNull,
   LoginData |->
     [ContextKey |-> IF "LoginData" \in DOMAIN body
                       THEN (IF "ContextKey" \in DOMAIN body["LoginData"]
                               THEN body["LoginData"]["ContextKey"] ELSE "")
                       ELSE ""]]

\* client.go:76: the guard on the environment
MissingCredentials(email, password) == email = "" \/ password = ""

\* client.go:125: the guard on the context key
NoContextKey_Never(loginResponse) == FALSE
NoContextKey(loginResponse) == loginResponse.LoginData.ContextKey = ""

Login(email, password, resp) ==
  IF MissingCredentials(email, password)
    THEN [result |-> NilClient, sent |-> FALSE, req |-> NoRequest,
          err |-> Errorf("MELCLOUD_EMAIL and MELCLOUD_PASSWORD environment variables must be set", "")]
    ELSE
      LET req == [method |-> "POST", url |-> "/Login/ClientLogin",
                  body |-> [Email |-> email, Password |-> password]]
      IN  CASE resp.kind = "transport" ->
                 [result |-> NilClient, sent |-> TRUE, req |-> req,
                  err |-> Errorf("failed to execute login request: ", "transport")]
            [] resp.kind = "statusjson" ->
                 [result |-> NilClient, sent |-> TRUE, req |-> req,
                  err |-> Errorf("login failed with status code, details: ", "")]
            [] resp.kind = "status" ->
                 [result |-> NilClient, sent |-> TRUE, req |-> req,
                  err |-> Errorf("login failed with status code: ", "")]
            [] resp.kind = "badjson" ->
                 [result |-> NilClient, sent |-> TRUE, req |-> req,
                  err |-> Errorf("failed to decode login response: ", "")]
            [] resp.kind = "ok" ->
                 LET loginResponse == DecodeLogin(resp.body)
                 IN  IF loginResponse.ErrorId /= JsonNull \/ loginResponse.ErrorCode /= JsonNull
                       THEN [result |-> NilClient, sent |-> TRUE, req |-> req,
                             err |-> Errorf("login API returned an error: ", loginResponse.ErrorId)]
                       ELSE IF NoContextKey(loginResponse)
                         THEN [result |-> NilClient, sent |-> TRUE, req |-> req,
                               err |-> Errorf("login response did not contain ContextKey", "")]
                         ELSE [result |-> NewClient(loginResponse.LoginData.ContextKey),
                               sent |-> TRUE, req |-> req, err |-> NoError]

(***************************************************************************)
(* ListDevices (client.go:138-203).  The body of the answer is a JSON      *)
(* array of buildings or the JSON null; allDevices is a nil slice until    *)
(* the first append.                                                       *)
(***************************************************************************)
NilDevices == [nil |-> TRUE, v |-> <<>>]

\* json.NewDecoder(resp.Body).Decode(&buildings): null gives no building, and
\* an absent Devices, Areas or Floors gives none
DecodeArea(a) == [Devices |-> IF "Devices" \in DOMAIN a THEN a["Devices"] ELSE <<>>]

DecodeAreas(areas) == [i \in 1..Len(areas) |-> DecodeArea(areas[i])]

DecodeFloor(f) ==
  [Devices |-> IF "Devices" \in DOMAIN f THEN f["Devices"] ELSE <<>>,
   Areas |-> IF "Areas" \in DOMAIN f THEN DecodeAreas(f["Areas"]) ELSE <<>>]

DecodeStructure(st) ==
  [Devices |-> IF "Devices" \in DOMAIN st THEN st["Devices"] ELSE <<>>,
   Areas |-> IF "Areas" \in DOMAIN st THEN DecodeAreas(st["Areas"]) ELSE <<>>,
   Floors |-> IF "Floors" \in DOMAIN st
                THEN [i \in 1..Len(st["Floors"]) |-> DecodeFloor(st["Floors"][i])]
                ELSE <<>>]

DecodeBuildings(body) ==
  IF body.null THEN <<>>
  ELSE [i \in 1..Len(body.array) |->
          [Structure |-> IF "Structure" \in DOMAIN body.array[i]
                           THEN DecodeStructure(body.array[i]["Structure"])
                           ELSE DecodeStructure([Name |-> ""])]]

\* client.go:171-174: the body of each of the four loops over devices
AppendDevice_Always(acc, device) ==
  [nil |-> FALSE, v |-> Append(acc.v, device), visited |-> acc.visited \cup {device.DeviceID}]

AppendDevice(acc, device) ==
  IF device.DeviceID \in acc.visited
    THEN acc
    ELSE [nil |-> FALSE, v |-> Append(acc.v, device),
          visited |-> acc.visited \cup {device.DeviceID}]

\* for _, device := range devices
RECURSIVE RangeDevices(_, _)
RangeDevices(acc, devices) ==
  IF devices = <<>> THEN acc
  ELSE RangeDevices(AppendDevice(acc, Head(devices)), Tail(devices))

\* for _, area := range areas
RECURSIVE RangeAreas(_, _)
RangeAreas(acc, areas) ==
  IF areas = <<>> THEN acc
  ELSE RangeAreas(RangeDevices(acc, Head(areas).Devices), Tail(areas))

\* for _, floor := range structure.Floors
RECURSIVE RangeFloors(_, _)
RangeFloors(acc, floors) ==
  IF floors = <<>> THEN acc
  ELSE RangeFloors(RangeAreas(RangeDevices(acc, Head(floors).Devices), Head(floors).Areas),
                   Tail(floors))

\* for _, building := range buildings
RECURSIVE RangeBuildings(_, _)
RangeBuildings(acc, buildings) ==
  IF buildings = <<>> THEN acc
  ELSE LET structure == Head(buildings).Structure
       IN  RangeBuildings(
             RangeFloors(RangeAreas(RangeDevices(acc, structure.Devices), structure.Areas),
                         structure.Floors),
             Tail(buildings))

ListDevices(resp) ==
  LET req == [method |-> "GET", url |-> "/User/ListDevices", body |-> Marshal(ZeroState)]
  IN  CASE resp.kind = "transport" ->
             [result |-> NilDevices, sent |-> TRUE, req |-> req,
              err |-> Errorf("failed to execute list devices request: ", "transport")]
        [] resp.kind = "statusjson" ->
             [result |-> NilDevices, sent |-> TRUE, req |-> req,
              err |-> Errorf("list devices failed with status code, details: ", "")]
        [] resp.kind = "status" ->
             [result |-> NilDevices, sent |-> TRUE, req |-> req,
              err |-> Errorf("list devices failed with status code: ", "")]
        [] resp.kind = "badjson" ->
             [result |-> NilDevices, sent |-> TRUE, req |-> req,
              err |-> Errorf("failed to decode list devices response: ", "")]
        [] resp.kind = "ok" ->
             LET allDevices ==
                   RangeBuildings([nil |-> TRUE, v |-> <<>>, visited |-> {}],
                                  DecodeBuildings(resp.body))
             IN  [result |-> [nil |-> allDevices.nil, v |-> allDevices.v],
                  sent |-> TRUE, req |-> req, err |-> NoError]

(***************************************************************************)
(* The inputs of the model.                                                *)
(***************************************************************************)
\* a full answer of the server to Device/Get or Device/SetAta
ServerBody(flags, deviceType, pending) ==
  [DeviceID |-> 7, BuildingID |-> 9, MacAddress |-> "aa:bb", SerialNumber |-> "sn1",
   DeviceType |-> deviceType, Power |-> TRUE, RoomTemperature |-> 215,
   SetTemperature |-> 230, OperationMode |-> OpModeHeat, SetFanSpeed |-> 3,
   VaneHorizontal |-> VaneHorizSwing, VaneVertical |-> VaneVertSwing, ErrorCode |-> 8000,
   HasError |-> FALSE, LastCommunication |-> "2024-05-01T10:20:30.123456",
   EffectiveFlags |-> flags, HasPendingCommand |-> pending]

\* an answer that leaves fields out and carries codes outside the tables
PartialBody ==
  [DeviceID |-> 7, OperationMode |-> 0, SetFanSpeed |-> 0 - 1, VaneVertical |-> 6,
   VaneHorizontal |-> 0 - 1, HasPendingCommand |-> TRUE,
   LastCommunication |-> "2024-05-01T10:20:30.1234567Z"]

\* 293 = 0x125 (power, target temperature, vane horizontal and the unassigned
\* bit 0x20); 40 = 0x28 (fan speed and 0x20); -256 has every bit from 0x100 up
ServerBodies ==
  {ServerBody(0, 0, FALSE), ServerBody(293, 0, TRUE), ServerBody(0, 1, FALSE),
   ServerBody(40, 1, FALSE), ServerBody(0 - 256, 0, FALSE), PartialBody}

Responses ==
  {[kind |-> k, body |-> PartialBody] : k \in {"transport", "status", "statusjson", "badjson"}}
    \cup {[kind |-> "ok", body |-> b] : b \in ServerBodies}

DeviceIDs == {7}
BuildingIDs == {3}

\* what the environment holds for MELCLOUD_EMAIL and MELCLOUD_PASSWORD
Emails == {"", "me@example.org"}
Passwords == {"", "secret"}

FailureKinds == {"transport", "status", "statusjson", "badjson"}

\* answers of the server to Login/ClientLogin: a key, an empty key, an error
\* with and without login data, and objects that leave keys out
LoginBodies ==
  {[ErrorId |-> JsonNull, ErrorCode |-> JsonNull, LoginData |-> [ContextKey |-> k]] :
     k \in {"k1", "k2", ""}}
    \cup {[ErrorId |-> "1", ErrorCode |-> JsonNull, LoginData |-> [ContextKey |-> "k1"]],
          [ErrorId |-> JsonNull, ErrorCode |-> "1", LoginData |-> [ContextKey |-> "k1"]],
          [ErrorId |-> "1", ErrorCode |-> "1"],
          [LoginData |-> [ContextKey |-> "k2"]],
          [LoginData |-> [Name |-> "n"]],
          [NextURLL |-> JsonNull]}

LoginResponses ==
  {[kind |-> k, body |-> [NextURLL |-> JsonNull]] : k \in FailureKinds}
    \cup {[kind |-> "ok", body |-> b] : b \in LoginBodies}

\* the devices of the answers to User/ListDevices: the same DeviceID occurs
\* under two names, so that the occurrence kept shows
DeviceNames == {"x", "y"}
DevicePool == {[DeviceID |-> i, BuildingID |-> 3, DeviceName |-> name] :
                 i \in 1..MaxDevID, name \in DeviceNames}

DeviceLists ==
  {<<>>} \cup {<<a>> : a \in DevicePool} \cup {<<a, b>> : a \in DevicePool, b \in DevicePool}
ShortDeviceLists == {<<>>} \cup {<<a>> : a \in DevicePool}
AreaLists == {<<>>} \cup {<<[Devices |-> l]>> : l \in ShortDeviceLists}
FloorLists ==
  {<<>>} \cup {<<[Devices |-> l, Areas |-> as]>> : l \in ShortDeviceLists, as \in AreaLists}

Building(devices, areas, floors) ==
  [Structure |-> [Devices |-> devices, Areas |-> areas, Floors |-> floors]]

\* one building with devices at every level
OneBuildingBodies ==
  {[null |-> FALSE, array |-> <<Building(l, as, fs)>>] :
     l \in DeviceLists, as \in AreaLists, fs \in FloorLists}

\* two areas, two floors, two areas of a floor, two buildings
RepeatedLevelBodies ==
  UNION {{[null |-> FALSE,
           array |-> <<Building(<<>>, <<[Devices |-> <<a>>], [Devices |-> <<b>>]>>, <<>>)>>],
          [null |-> FALSE,
           array |-> <<Building(<<>>, <<>>, <<[Devices |-> <<a>>, Areas |-> <<>>],
                                               [Devices |-> <<b>>, Areas |-> <<>>]>>)>>],
          [null |-> FALSE,
           array |-> <<Building(<<>>, <<>>, <<[Devices |-> <<>>,
                                                Areas |-> <<[Devices |-> <<a>>],
                                                            [Devices |-> <<b>>]>>]>>)>>],
          [null |-> FALSE,
           array |-> <<Building(<<>>, <<>>, <<[Devices |-> <<a>>, Areas |-> <<>>]>>),
                       Building(<<b>>, <<>>, <<>>)>>]} :
         a \in DevicePool, b \in DevicePool}

\* no building, null, and buildings that leave keys out
BareBodies ==
  {[null |-> FALSE, array |-> <<>>], [null |-> TRUE, array |-> <<>>],
   [null |-> FALSE, array |-> <<[Name |-> "home"]>>],
   [null |-> FALSE, array |-> <<[Structure |-> [Floors |-> <<[Name |-> "ground"]>>]]>>]}

ListBodies == OneBuildingBodies \cup RepeatedLevelBodies \cup BareBodies

ListResponses ==
  {[kind |-> k, body |-> [null |-> TRUE, array |-> <<>>]] : k \in FailureKinds}
    \cup {[kind |-> "ok", body |-> b] : b \in ListBodies}
PowerInputs == BOOLEAN
TempInputs == {220, 235}
ModeInputs == {ModeCool, ModeHeatCool, "auto"}
FanInputs == {FanAuto, <<"2">>, <<"0">>}
VaneVertInputs == {VaneSwing, "3", VaneSplit}
VaneHorizInputs == {VaneSplit, VaneAuto, "left"}

Setters ==
  {"SetPower", "SetOperationMode", "SetTargetTemperature", "SetFanSpeedMode",
   "SetVaneVertical", "SetVaneHorizontal"}

(***************************************************************************)
(* The state machine: one caller holding one AtaDeviceState and making     *)
(* library calls on it, one after the other (the library is synchronous).  *)
(***************************************************************************)
VARIABLES
  s,      \* the caller's AtaDeviceState
  nreq,   \* the number of HTTP requests the client has issued
  wire,   \* the last HTTP request issued
  call,   \* the last library call: its name, argument, and s and nreq before it
  ret,    \* what that call returned: error and result
  edit,   \* the setters that succeeded since ResetEffectiveFlags, with their arguments
  n,      \* the number of calls made
  client  \* the *Client the caller holds: [nil, token]

vars == <<s, nreq, wire, call, ret, edit, n, client>>

NoSetters == [op \in {} |-> ""]
NoEdit == [active |-> FALSE, done |-> NoSetters]

Init ==
  /\ s = ZeroState
  /\ nreq = 0
  /\ wire = NoRequest
  /\ call = [op |-> "", arg |-> "", pre |-> ZeroState, nreq |-> 0]
  /\ ret = [op |-> "", err |-> NoError, result |-> ""]
  /\ edit = NoEdit
  /\ n = 0
  /\ client = NewClient("k1")

\* a call of `op` with `arg` that leaves the record as `st` and returns (result, err);
\* a call that panicked has ended the program
Returned(op, arg, st, err, result) ==
  /\ n < MaxOps
  /\ ret.err.kind /= "panic"
  /\ n' = n + 1
  /\ call' = [op |-> op, arg |-> arg, pre |-> s, nreq |-> nreq]
  /\ ret' = [op |-> op, err |-> err, result |-> result]
  /\ s' = st

\* the record of the edit session after setter `op` returned err
Edited(op, arg, err) ==
  IF edit.active /\ err.kind = "nil"
    THEN [edit EXCEPT !.done = (op :> arg) @@ @] ELSE edit

\* a call on the record or through the client: the caller keeps its client
Returns(op, arg, st, err, result) ==
  /\ Returned(op, arg, st, err, result)
  /\ UNCHANGED client

CallSetPower ==
  \E power \in PowerInputs :
    /\ Returns("SetPower", power, SetPower(s, power), NoError, "")
    /\ edit' = Edited("SetPower", power, NoError)
    /\ UNCHANGED <<nreq, wire>>

CallSetTargetTemperature ==
  \E temp \in TempInputs :
    /\ Returns("SetTargetTemperature", temp, SetTargetTemperature(s, temp), NoError, "")
    /\ edit' = Edited("SetTargetTemperature", temp, NoError)
    /\ UNCHANGED <<nreq, wire>>

CallSetOperationMode(inputs) ==
  \E mode \in inputs :
    LET r == SetOperationMode(s, mode)
    IN  /\ Returns("SetOperationMode", mode, r.st, r.err, "")
        /\ edit' = Edited("SetOperationMode", mode, r.err)
        /\ UNCHANGED <<nreq, wire>>

CallSetFanSpeedMode(inputs) ==
  \E speed \in inputs :
    LET r == SetFanSpeedMode(s, speed)
    IN  /\ Returns("SetFanSpeedMode", speed, r.st, r.err, "")
        /\ edit' = Edited("SetFanSpeedMode", speed, r.err)
        /\ UNCHANGED <<nreq, wire>>

CallSetVaneVertical(inputs) ==
  \E pos \in inputs :
    LET r == SetVaneVertical(s, pos)
    IN  /\ Returns("SetVaneVertical", pos, r.st, r.err, "")
        /\ edit' = Edited("SetVaneVertical", pos, r.err)
        /\ UNCHANGED <<nreq, wire>>

CallSetVaneHorizontal(inputs) ==
  \E pos \in inputs :
    LET r == SetVaneHorizontal(s, pos)
    IN  /\ Returns("SetVaneHorizontal", pos, r.st, r.err, "")
        /\ edit' = Edited("SetVaneHorizontal", pos, r.err)
        /\ UNCHANGED <<nreq, wire>>

CallResetEffectiveFlags ==
  /\ Returns("ResetEffectiveFlags", "", ResetEffectiveFlags(s), NoError, "")
  /\ edit' = [active |-> TRUE, done |-> NoSetters]
  /\ UNCHANGED <<nreq, wire>>

CallOperationModeString ==
  /\ Returns("OperationModeString", "", s, NoError, OperationModeString(s))
  /\ UNCHANGED <<nreq, wire, edit>>

CallFanSpeedString ==
  /\ Returns("FanSpeedString", "", s, NoError, FanSpeedString(s))
  /\ UNCHANGED <<nreq, wire, edit>>

CallVaneVerticalString ==
  /\ Returns("VaneVerticalString", "", s, NoError, VaneVerticalString(s))
  /\ UNCHANGED <<nreq, wire, edit>>

CallVaneHorizontalString ==
  /\ Returns("VaneHorizontalString", "", s, NoError, VaneHorizontalString(s))
  /\ UNCHANGED <<nreq, wire, edit>>

CallLastCommunicationTime ==
  LET r == LastCommunicationTime(s)
  IN  /\ Returns("LastCommunicationTime", "", s, r.err, r.kind)
      /\ UNCHANGED <<nreq, wire, edit>>

\* state, err := client.GetDeviceState(id, buildingID): on success the caller
\* goes on with the record returned, on failure it keeps the one it has
CallGetDeviceState(responses) ==
  \E deviceID \in DeviceIDs, buildingID \in BuildingIDs, resp \in responses :
    LET r == GetDeviceState(deviceID, buildingID, resp)
    IN  /\ ~client.nil
        /\ Returns("GetDeviceState", resp, IF r.result.nil THEN s ELSE r.result.v,
                   r.err, r.result)
        /\ nreq' = IF r.sent THEN nreq + 1 ELSE nreq
        /\ wire' = IF r.sent THEN r.req ELSE wire
        /\ edit' = IF r.result.nil THEN edit ELSE NoEdit

\* client.go:243: SetDeviceState(state AtaDeviceState) takes the record by
\* value, so what it assigns to `state` stays in its own copy
CallersRecord_SharedWithCallee(state) ==
  IF NoPendingChanges(state) THEN state ELSE ForcePendingCommand(state)

CallersRecord(state) == state

\* updated, err := client.SetDeviceState(s): the record is passed by value
CallSetDeviceState(responses) ==
  \E resp \in responses :
    LET r == SetDeviceState(s, resp)
    IN  /\ ~client.nil
        /\ Returns("SetDeviceState", resp, CallersRecord(s), r.err, r.result)
        /\ nreq' = IF r.sent THEN nreq + 1 ELSE nreq
        /\ wire' = IF r.sent THEN r.req ELSE wire
        /\ UNCHANGED edit

\* client, err := melcloud.Login()
CallLogin ==
  \E email \in Emails, password \in Passwords, resp \in LoginResponses :
    LET r == Login(email, password, resp)
    IN  /\ Returned("Login", [email |-> email, password |-> password, resp |-> resp],
                    s, r.err, r.result)
        /\ client' = r.result
        /\ nreq' = IF r.sent THEN nreq + 1 ELSE nreq
        /\ wire' = IF r.sent THEN r.req ELSE wire
        /\ UNCHANGED edit

\* devices, err := client.ListDevices()
CallListDevices(responses) ==
  \E resp \in responses :
    LET r == ListDevices(resp)
    IN  /\ ~client.nil
        /\ Returns("ListDevices", resp, s, r.err, r.result)
        /\ nreq' = IF r.sent THEN nreq + 1 ELSE nreq
        /\ wire' = IF r.sent THEN r.req ELSE wire
        /\ UNCHANGED edit

Next ==
  \/ CallSetPower
  \/ CallSetOperationMode(ModeInputs)
  \/ CallSetTargetTemperature
  \/ CallSetFanSpeedMode(FanInputs)
  \/ CallSetVaneVertical(VaneVertInputs)
  \/ CallSetVaneHorizontal(VaneHorizInputs)
  \/ CallResetEffectiveFlags
  \/ CallOperationModeString
  \/ CallFanSpeedString
  \/ CallVaneVerticalString
  \/ CallVaneHorizontalString
  \/ CallLastCommunicationTime
  \/ CallGetDeviceState(Responses)
  \/ CallSetDeviceState(Responses)

Spec == Init /\ [][Next]_vars

(***************************************************************************)
(* SpecCodec: the codec on its whole input space.  The record starts with  *)
(* any integer code in its enumerated fields (they are decoded from the    *)
(* server's JSON as plain ints), and the caller makes two calls drawn from *)
(* the string setters, with every label of every table and strings of none,*)
(* and the *String accessors: an encode and a decode.                      *)
(***************************************************************************)
Codes == (0 - MaxCode) .. (13 + MaxCode)

Labels ==
  {ModeHeat, ModeDry, ModeCool, ModeFanOnly, ModeHeatCool, ModeUnknown, "Heat", "auto",
   "1", "2", "3", "4", "5", "6", "0", VaneSwing, VaneSplit, ""}

FanChars == {"0", "1", "2", "-", "+", "x"}

FanStrings ==
  {FanAuto, <<"a", "u">>, <<"A", "u", "t", "o">>}
    \cup UNION {[1..k -> FanChars] : k \in 0..MaxFanLen}

InitCodec ==
  /\ s \in {[ZeroState EXCEPT !.OperationMode = c, !.SetFanSpeed = c,
                              !.VaneVertical = c, !.VaneHorizontal = c] : c \in Codes}
  /\ nreq = 0
  /\ wire = NoRequest
  /\ call = [op |-> "", arg |-> "", pre |-> ZeroState, nreq |-> 0]
  /\ ret = [op |-> "", err |-> NoError, result |-> ""]
  /\ edit = NoEdit
  /\ n = 0
  /\ client = NewClient("k1")

NextCodec ==
  /\ n < 2
  /\ \/ CallSetOperationMode(Labels)
     \/ CallSetFanSpeedMode(FanStrings)
     \/ CallSetVaneVertical(Labels)
     \/ CallSetVaneHorizontal(Labels)
     \/ CallOperationModeString
     \/ CallFanSpeedString
     \/ CallVaneVerticalString
     \/ CallVaneHorizontalString

SpecCodec == InitCodec /\ [][NextCodec]_vars

(***************************************************************************)
(* The client: a caller that starts without a client, logs in, and lists,  *)
(* reads and writes through the client it got.                             *)
(***************************************************************************)
ClientResponses ==
  {r \in Responses :
     r.kind = "ok" => r.body \in {ServerBody(293, 0, TRUE), ServerBody(0, 1, FALSE)}}

ClientListResponses ==
  {r \in ListResponses :
     r.kind = "ok" =>
       r.body \in BareBodies
         \cup {[null |-> FALSE, array |-> <<Building(<<a, a>>, <<>>, <<>>)>>] : a \in DevicePool}}

InitClient ==
  /\ s = ZeroState
  /\ nreq = 0
  /\ wire = NoRequest
  /\ call = [op |-> "", arg |-> "", pre |-> ZeroState, nreq |-> 0]
  /\ ret = [op |-> "", err |-> NoError, result |-> ""]
  /\ edit = NoEdit
  /\ n = 0
  /\ client = NilClient

NextClient ==
  /\ n < MaxClientOps
  /\ \/ CallLogin
     \/ CallListDevices(ClientListResponses)
     \/ CallGetDeviceState(ClientResponses)
     \/ CallSetDeviceState(ClientResponses)
     \/ CallSetPower

SpecClient == InitClient /\ [][NextClient]_vars

(***************************************************************************)
(* The device list: a logged-in caller and the answers of the server to    *)
(* one ListDevices.                                                        *)
(***************************************************************************)
NextList ==
  /\ n < 1
  /\ CallListDevices(ListResponses)

SpecList == Init /\ [][NextList]_vars

(***************************************************************************)
(* What the claims speak of, stated apart from the code's definitions.     *)
(***************************************************************************)
\* bit k of an int, in two's complement
Bit(x, k) == (x \div (2 ^ k)) % 2 = 1

\* the position of each setter's bit: power 0x01, mode 0x02, target
\* temperature 0x04, fan speed 0x08, vane vertical 0x10, vane horizontal 0x100
FlagBit(op) ==
  CASE op = "SetPower" -> 0
    [] op = "SetOperationMode" -> 1
    [] op = "SetTargetTemperature" -> 2
    [] op = "SetFanSpeedMode" -> 3
    [] op = "SetVaneVertical" -> 4
    [] op = "SetVaneHorizontal" -> 8

\* the sum of the bits of a set of setters
BitsOf(ops) ==
  (IF "SetPower" \in ops THEN 1 ELSE 0) + (IF "SetOperationMode" \in ops THEN 2 ELSE 0)
    + (IF "SetTargetTemperature" \in ops THEN 4 ELSE 0)
    + (IF "SetFanSpeedMode" \in ops THEN 8 ELSE 0)
    + (IF "SetVaneVertical" \in ops THEN 16 ELSE 0)
    + (IF "SetVaneHorizontal" \in ops THEN 256 ELSE 0)

\* the tables of the specification, as (label, code) pairs
ModeTable ==
  {<<"heat", 1>>, <<"dry", 2>>, <<"cool", 3>>, <<"fan_only", 7>>, <<"heat_cool", 8>>}

VaneVertTable ==
  {<<"auto", 0>>, <<"1", 1>>, <<"2", 2>>, <<"3", 3>>, <<"4", 4>>, <<"5", 5>>, <<"swing", 7>>}

VaneHorizTable ==
  {<<"auto", 0>>, <<"1", 1>>, <<"2", 2>>, <<"3", 3>>, <<"4", 4>>, <<"5", 5>>,
   <<"split", 8>>, <<"swing", 12>>}

TableOf(op) ==
  CASE op \in {"SetOperationMode", "OperationModeString"} -> ModeTable
    [] op \in {"SetVaneVertical", "VaneVerticalString"} -> VaneVertTable
    [] op \in {"SetVaneHorizontal", "VaneHorizontalString"} -> VaneHorizTable

\* the field a setter or accessor is about
FieldOf(op) ==
  CASE op \in {"SetOperationMode", "OperationModeString"} -> "OperationMode"
    [] op \in {"SetFanSpeedMode", "FanSpeedString"} -> "SetFanSpeed"
    [] op \in {"SetVaneVertical", "VaneVerticalString"} -> "VaneVertical"
    [] op \in {"SetVaneHorizontal", "VaneHorizontalString"} -> "VaneHorizontal"

\* a decimal numeral: an optional sign and then digits, at least one
Unsigned(str) == IF str /= <<>> /\ str[1] \in {"+", "-"} THEN SubSeq(str, 2, Len(str)) ELSE str
IsNumeral(str) ==
  /\ Unsigned(str) /= <<>>
  /\ \A i \in 1..Len(Unsigned(str)) : Unsigned(str)[i] \in DigitChars
\* the value of its digits, by place
PlaceValue(digits) ==
  LET RECURSIVE Sum(_)
      Sum(i) == IF i > Len(digits) THEN 0
                ELSE DigitVal(digits[i]) * (10 ^ (Len(digits) - i)) + Sum(i + 1)
  IN  Sum(1)
\* a numeral of an integer greater than 0
IsPositiveNumeral(str) ==
  IsNumeral(str) /\ str[1] /= "-" /\ PlaceValue(Unsigned(str)) > 0

\* whether a string setter accepts a label, by the specification's tables
InTable(op, label) ==
  IF op = "SetFanSpeedMode"
    THEN label = FanAuto \/ IsPositiveNumeral(label)
    ELSE \E p \in TableOf(op) : p[1] = label

StringSetters ==
  {"SetOperationMode", "SetFanSpeedMode", "SetVaneVertical", "SetVaneHorizontal"}

\* the setter `op` called on st with x
Apply(op, st, x) ==
  CASE op = "SetPower" -> [st |-> SetPower(st, x), err |-> NoError]
    [] op = "SetTargetTemperature" -> [st |-> SetTargetTemperature(st, x), err |-> NoError]
    [] op = "SetOperationMode" -> SetOperationMode(st, x)
    [] op = "SetFanSpeedMode" -> SetFanSpeedMode(st, x)
    [] op = "SetVaneVertical" -> SetVaneVertical(st, x)
    [] op = "SetVaneHorizontal" -> SetVaneHorizontal(st, x)

\* the inputs Spec tries on a setter
InputsOf(op) ==
  CASE op = "SetPower" -> PowerInputs
    [] op = "SetTargetTemperature" -> TempInputs
    [] op = "SetOperationMode" -> ModeInputs
    [] op = "SetFanSpeedMode" -> FanInputs
    [] op = "SetVaneVertical" -> VaneVertInputs
    [] op = "SetVaneHorizontal" -> VaneHorizInputs

Succeeded == ret.err.kind = "nil"
Failed == ret.err.kind = "error"

(***************************************************************************)
(* C1: after a setter succeeds, EffectiveFlags is the flags before the     *)
(* call with exactly that setter's bit added: every other bit is as it     *)
(* was, and calling the same setter again leaves EffectiveFlags as it is.  *)
(***************************************************************************)
C1_SetterAddsExactlyItsBit ==
  (call.op \in Setters /\ Succeeded) =>
    /\ \A k \in 0..MaxBit :
         Bit(s.EffectiveFlags, k)
           <=> (Bit(call.pre.EffectiveFlags, k) \/ k = FlagBit(call.op))
    /\ s.EffectiveFlags \div (2 ^ (MaxBit + 1))
         = call.pre.EffectiveFlags \div (2 ^ (MaxBit + 1))
    /\ \A x \in InputsOf(call.op) :
         LET again == Apply(call.op, s, x)
         IN  again.err.kind = "nil" => again.st.EffectiveFlags = s.EffectiveFlags

\* the server echoed 0x28, SetTargetTemperature made it 0x2C, and a second
\* SetTargetTemperature left it 0x2C
C1_Witness ==
  /\ call.op = "SetTargetTemperature"
  /\ call.pre.EffectiveFlags = 44
  /\ s.EffectiveFlags = 44

(***************************************************************************)
(* C2: a string setter given a label outside its table returns an error,   *)
(* and a setter that returns an error leaves every field of the record,    *)
(* EffectiveFlags and the paired field included, as before the call.       *)
(***************************************************************************)
C2_RejectedLabelChangesNothing ==
  call.op \in StringSetters =>
    /\ ~InTable(call.op, call.arg) => Failed
    /\ Failed => s = call.pre

C2_Witness ==
  /\ call.op = "SetVaneVertical"
  /\ call.arg = VaneSplit
  /\ Failed
  /\ call.pre.EffectiveFlags = 293
  /\ s = call.pre

(***************************************************************************)
(* C3: SetDeviceState on a record whose EffectiveFlags is 0 returns an     *)
(* error and a nil result and issues no HTTP request, whatever the other   *)
(* fields, DeviceType included.                                            *)
(***************************************************************************)
C3_EmptyFlagsRejectedLocally ==
  (call.op = "SetDeviceState" /\ call.pre.EffectiveFlags = 0) =>
    /\ Failed
    /\ ret.result.nil
    /\ nreq = call.nreq

C3_Witness ==
  /\ call.op = "SetDeviceState"
  /\ call.pre.EffectiveFlags = 0
  /\ call.pre.DeviceType = 1
  /\ call.arg.kind = "ok"
  /\ Failed
  /\ nreq = call.nreq

\* the error of SetDeviceState's guard on an empty flag set
NoPendingChangesError(err) ==
  /\ err.kind = "error"
  /\ err.prefix = "SetDeviceState requires EffectiveFlags to be set to indicate changes"

(***************************************************************************)
(* C4 as claimed: the record GetDeviceState returns has EffectiveFlags 0   *)
(* whatever the response holds.                                            *)
(***************************************************************************)
C4_FetchedFlagsAlwaysEmpty ==
  (call.op = "GetDeviceState" /\ Succeeded) => ret.result.v.EffectiveFlags = 0

(***************************************************************************)
(* C4 amended: the record GetDeviceState returns has the EffectiveFlags of *)
(* the response, 0 when the response has none, and it is the record the    *)
(* caller goes on with; SetDeviceState fails with the no-pending-changes   *)
(* error exactly when the record passed has EffectiveFlags 0.  So a        *)
(* fetched record passed on unmodified is refused if and only if the       *)
(* server sent no flags.                                                   *)
(***************************************************************************)
C4_FetchedFlagsAreTheServers ==
  /\ (call.op = "GetDeviceState" /\ Succeeded) =>
       /\ ~ret.result.nil
       /\ s = ret.result.v
       /\ s.EffectiveFlags = IF "EffectiveFlags" \in DOMAIN call.arg.body
                               THEN call.arg.body.EffectiveFlags ELSE 0
  /\ call.op = "SetDeviceState" =>
       (NoPendingChangesError(ret.err) <=> call.pre.EffectiveFlags = 0)

\* two calls: a fetch that brought the flags 0x125, and the write of that
\* record, unmodified, which the guard let through
C4_Witness ==
  /\ n = 2
  /\ call.op = "SetDeviceState"
  /\ call.pre.EffectiveFlags = 293
  /\ call.pre.DeviceID = 7
  /\ ~NoPendingChangesError(ret.err)
  /\ nreq = 2

(***************************************************************************)
(* C5: whenever SetDeviceState transmits a write, the record passed has    *)
(* EffectiveFlags other than 0 and DeviceType 0, and the body sent has     *)
(* HasPendingCommand true, whatever the caller's value, and every other    *)
(* field, EffectiveFlags included, as in the record the caller passed.     *)
(***************************************************************************)
C5_PayloadIsStateWithPendingForced ==
  call.op = "SetDeviceState" =>
    /\ nreq \in {call.nreq, call.nreq + 1}
    /\ nreq = call.nreq + 1 =>
         /\ call.pre.EffectiveFlags /= 0
         /\ call.pre.DeviceType = 0
         /\ wire.method = "POST"
         /\ wire.url = "/Device/SetAta"
         /\ DOMAIN wire.body = Fields
         /\ wire.body["HasPendingCommand"] = TRUE
         /\ \A f \in Fields \ {"HasPendingCommand"} : wire.body[f] = call.pre[f]

\* the caller's record had HasPendingCommand false and flags 0x04
C5_Witness ==
  /\ call.op = "SetDeviceState"
  /\ nreq = call.nreq + 1
  /\ call.pre.HasPendingCommand = FALSE
  /\ call.pre.EffectiveFlags = 4
  /\ wire.body["HasPendingCommand"] = TRUE
  /\ wire.body["EffectiveFlags"] = 4

(***************************************************************************)
(* C6: from ResetEffectiveFlags on, through any calls of the setters,      *)
(* EffectiveFlags is exactly the bits of the setters that succeeded,       *)
(* whatever it was before the reset.  SetOperationMode("cool") and then    *)
(* SetTargetTemperature(22.0) give mode 3, temperature 22.0 and flags      *)
(* 0x06; SetTargetTemperature alone gives flags 0x04.                      *)
(***************************************************************************)
C6_FlagsAfterResetAreTheSettersBits ==
  edit.active =>
    /\ s.EffectiveFlags = BitsOf(DOMAIN edit.done)
    /\ ( /\ DOMAIN edit.done = {"SetOperationMode", "SetTargetTemperature"}
         /\ edit.done["SetOperationMode"] = ModeCool
         /\ edit.done["SetTargetTemperature"] = 220 )
         => (s.OperationMode = 3 /\ s.SetTemperature = 220 /\ s.EffectiveFlags = 6)
    /\ DOMAIN edit.done = {"SetTargetTemperature"} => s.EffectiveFlags = 4

\* the record was fetched with the server's flags 0x125, reset, and then
\* took SetOperationMode("cool") and SetTargetTemperature(22.0)
C6_Witness ==
  /\ n = 4
  /\ edit.active
  /\ call.op = "SetTargetTemperature"
  /\ DOMAIN edit.done = {"SetOperationMode", "SetTargetTemperature"}
  /\ s.RoomTemperature = 215
  /\ s.HasPendingCommand
  /\ s.OperationMode = 3
  /\ s.SetTemperature = 220
  /\ s.EffectiveFlags = 6

(***************************************************************************)
(* The codec claims, checked under SpecCodec.                              *)
(***************************************************************************)
TableSetters == {"SetOperationMode", "SetVaneVertical", "SetVaneHorizontal"}
TableAccessors == {"OperationModeString", "VaneVerticalString", "VaneHorizontalString"}

\* the accessor that decodes what a setter encodes, and the other way round
AccessorOf(op) ==
  CASE op = "SetOperationMode" -> "OperationModeString"
    [] op = "SetFanSpeedMode" -> "FanSpeedString"
    [] op = "SetVaneVertical" -> "VaneVerticalString"
    [] op = "SetVaneHorizontal" -> "VaneHorizontalString"

SetterOf(op) ==
  CASE op = "OperationModeString" -> "SetOperationMode"
    [] op = "FanSpeedString" -> "SetFanSpeedMode"
    [] op = "VaneVerticalString" -> "SetVaneVertical"
    [] op = "VaneHorizontalString" -> "SetVaneHorizontal"

\* the accessor `op` called on st
Read(op, st) ==
  CASE op = "OperationModeString" -> OperationModeString(st)
    [] op = "FanSpeedString" -> FanSpeedString(st)
    [] op = "VaneVerticalString" -> VaneVerticalString(st)
    [] op = "VaneHorizontalString" -> VaneHorizontalString(st)

CodeInTable(op, code) == \E p \in TableOf(op) : p[2] = code

UnknownChars == <<"u", "n", "k", "n", "o", "w", "n">>

\* the integer a numeral denotes
NumeralValue(str) ==
  IF str[1] = "-" THEN 0 - PlaceValue(Unsigned(str)) ELSE PlaceValue(Unsigned(str))

\* the numeral Itoa writes: no "+", no leading zero, "-" only before a non-zero
IsCanonicalNumeral(str) ==
  /\ IsNumeral(str)
  /\ str[1] /= "+"
  /\ Len(Unsigned(str)) > 1 => Unsigned(str)[1] /= "0"
  /\ str[1] = "-" => PlaceValue(Unsigned(str)) /= 0

(***************************************************************************)
(* C7: for operation mode, vane vertical and vane horizontal the setter    *)
(* accepts exactly the labels of the table, stores the label's code, and   *)
(* the accessor on that code returns the label; the accessor on a code of  *)
(* the table returns its label, which the setter maps back to the code.    *)
(* "split" is accepted by SetVaneHorizontal (code 8), not by               *)
(* SetVaneVertical.  (The labels of the mode table are the code's strings  *)
(* "heat", "dry", "cool", "fan_only" and, for Auto = 8, "heat_cool".)      *)
(***************************************************************************)
C7_EncodeDecodeInverse ==
  /\ call.op \in TableSetters =>
       /\ Succeeded <=> InTable(call.op, call.arg)
       /\ Succeeded =>
            /\ <<call.arg, s[FieldOf(call.op)]>> \in TableOf(call.op)
            /\ Read(AccessorOf(call.op), s) = call.arg
  /\ (call.op \in TableAccessors /\ CodeInTable(call.op, s[FieldOf(call.op)])) =>
       /\ <<ret.result, s[FieldOf(call.op)]>> \in TableOf(call.op)
       /\ LET back == Apply(SetterOf(call.op), s, ret.result)
          IN  back.err.kind = "nil" /\ back.st[FieldOf(call.op)] = s[FieldOf(call.op)]
  /\ (call.op = "SetVaneVertical" /\ call.arg = "split") => Failed
  /\ (call.op = "SetVaneHorizontal" /\ call.arg = "split") =>
       (Succeeded /\ s.VaneHorizontal = 8)

\* SetVaneHorizontal("split") and then VaneHorizontalString
C7_Witness ==
  /\ n = 2
  /\ call.op = "VaneHorizontalString"
  /\ s.EffectiveFlags = 256
  /\ s.VaneHorizontal = 8
  /\ s.VaneVertical /= 8
  /\ ret.result = "split"

(***************************************************************************)
(* C8: SetFanSpeedMode accepts "auto", stored as 0, and the numerals of    *)
(* the integers n > 0, stored as n whatever their size; it rejects every   *)
(* other string: "0", negative numerals, text.  FanSpeedString on an       *)
(* accepted code returns "auto" for 0 and the decimal numeral of n, which  *)
(* SetFanSpeedMode maps back to the same code.                             *)
(***************************************************************************)
C8_FanSpeedCodec ==
  /\ call.op = "SetFanSpeedMode" =>
       /\ Succeeded <=> (call.arg = FanAuto \/ IsPositiveNumeral(call.arg))
       /\ (Succeeded /\ call.arg = FanAuto) => s.SetFanSpeed = 0
       /\ (Succeeded /\ call.arg /= FanAuto) =>
            (s.SetFanSpeed = PlaceValue(Unsigned(call.arg)) /\ s.SetFanSpeed > 0)
       /\ Succeeded =>
            LET label == Read("FanSpeedString", s)
                back == Apply("SetFanSpeedMode", s, label)
            IN  /\ s.SetFanSpeed = 0 => label = FanAuto
                /\ s.SetFanSpeed /= 0 =>
                     (IsCanonicalNumeral(label) /\ NumeralValue(label) = s.SetFanSpeed)
                /\ back.err.kind = "nil"
                /\ back.st.SetFanSpeed = s.SetFanSpeed
  /\ (call.op = "FanSpeedString" /\ s.SetFanSpeed >= 0) =>
       LET back == Apply("SetFanSpeedMode", s, ret.result)
       IN  back.err.kind = "nil" /\ back.st.SetFanSpeed = s.SetFanSpeed

\* SetFanSpeedMode("21") and then FanSpeedString
C8_Witness ==
  /\ n = 2
  /\ call.op = "FanSpeedString"
  /\ s.EffectiveFlags = 8
  /\ s.SetFanSpeed = 21
  /\ ret.result = <<"2", "1">>

(***************************************************************************)
(* C9 as claimed: every accessor, FanSpeedString included, returns         *)
(* "unknown" on a code that is not in its field's table (the fan-speed     *)
(* table being 0 and the integers above 0).                                *)
(***************************************************************************)
C9_EveryAccessorSaysUnknown ==
  /\ (call.op \in TableAccessors /\ ~CodeInTable(call.op, s[FieldOf(call.op)])) =>
       ret.result = "unknown"
  /\ (call.op = "FanSpeedString" /\ s.SetFanSpeed < 0) => ret.result = UnknownChars

(***************************************************************************)
(* C9 amended: OperationModeString, VaneVerticalString and                 *)
(* VaneHorizontalString return "unknown" on every code that is not in      *)
(* their table, negative ones included.  FanSpeedString has no "unknown":  *)
(* it returns "auto" on 0 and the decimal numeral of every other code,     *)
(* with its "-" when the code is negative.  None of the four fails.        *)
(***************************************************************************)
C9_UnknownForTablesNumeralForFan ==
  /\ (call.op \in TableAccessors /\ ~CodeInTable(call.op, s[FieldOf(call.op)])) =>
       (Succeeded /\ ret.result = "unknown")
  /\ call.op = "FanSpeedString" =>
       /\ Succeeded
       /\ ret.result /= UnknownChars
       /\ s.SetFanSpeed = 0 => ret.result = FanAuto
       /\ s.SetFanSpeed /= 0 =>
            (IsCanonicalNumeral(ret.result) /\ NumeralValue(ret.result) = s.SetFanSpeed)

\* FanSpeedString on the code -1
C9_Witness ==
  /\ call.op = "FanSpeedString"
  /\ s.SetFanSpeed = 0 - 1
  /\ ret.result = <<"-", "1">>

\* the message that names each field
InvalidValueMessage(op) ==
  CASE op = "SetOperationMode" -> "invalid operation mode: "
    [] op = "SetFanSpeedMode" -> "invalid fan speed: "
    [] op = "SetVaneVertical" -> "invalid vertical vane position: "
    [] op = "SetVaneHorizontal" -> "invalid horizontal vane position: "

(***************************************************************************)
(* C10: a string setter given a string outside its table returns an error  *)
(* whose message names the setter's field and carries the string, and the  *)
(* field keeps the code it had: no setter falls back to a default code.    *)
(***************************************************************************)
C10_InvalidValueNamesFieldAndString ==
  (call.op \in StringSetters /\ ~InTable(call.op, call.arg)) =>
    /\ Failed
    /\ ret.err.prefix = InvalidValueMessage(call.op)
    /\ \A other \in StringSetters \ {call.op} : ret.err.prefix /= InvalidValueMessage(other)
    /\ ret.err.arg = call.arg
    /\ s[FieldOf(call.op)] = call.pre[FieldOf(call.op)]

\* SetVaneHorizontal("6") on a record whose VaneHorizontal is 12
C10_Witness ==
  /\ call.op = "SetVaneHorizontal"
  /\ call.arg = "6"
  /\ Failed
  /\ ret.err.arg = "6"
  /\ call.pre.VaneHorizontal = 12
  /\ s.VaneHorizontal = 12

\* the operations on a record the caller holds
Accessors == {"OperationModeString", "FanSpeedString", "VaneVerticalString",
              "VaneHorizontalString"}
RecordOperations == Setters \cup Accessors \cup {"LastCommunicationTime", "SetDeviceState"}

(***************************************************************************)
(* C11: a setter, an accessor, LastCommunicationTime or SetDeviceState     *)
(* leaves every bit set that was set in EffectiveFlags before the call,    *)
(* whether it succeeds or fails; ResetEffectiveFlags leaves EffectiveFlags *)
(* 0, and no other operation on the record removes a bit.                  *)
(***************************************************************************)
C11_FlagsLoseBitsOnlyByReset ==
  /\ call.op \in RecordOperations =>
       /\ \A k \in 0..MaxBit :
            Bit(call.pre.EffectiveFlags, k) => Bit(s.EffectiveFlags, k)
       /\ \A k \in 0..MaxBit :
            Bit(call.pre.EffectiveFlags \div (2 ^ (MaxBit + 1)), k)
              => Bit(s.EffectiveFlags \div (2 ^ (MaxBit + 1)), k)
  /\ call.op = "ResetEffectiveFlags" => s.EffectiveFlags = 0
  /\ (\E k \in 0..MaxBit : Bit(call.pre.EffectiveFlags, k) /\ ~Bit(s.EffectiveFlags, k))
       => call.op \in {"ResetEffectiveFlags", "GetDeviceState"}

\* the server echoed 0x28, SetPower made it 0x29, and LastCommunicationTime
\* left it 0x29
C11_Witness ==
  /\ call.op = "LastCommunicationTime"
  /\ call.pre.EffectiveFlags = 41
  /\ s.EffectiveFlags = 41

\* the call transmitted its request
Transmitted == nreq = call.nreq + 1

(***************************************************************************)
(* C15: when SetDeviceState returns, with or without an error, the record  *)
(* the caller passed has every field, EffectiveFlags and HasPendingCommand *)
(* included, as before the call; a write that transmitted carried the      *)
(* caller's flags, and SetDeviceState on the same record again transmits   *)
(* the same flags whatever the server answers.                             *)
(***************************************************************************)
C15_CallersRecordUntouched ==
  call.op = "SetDeviceState" =>
    /\ s = call.pre
    /\ Transmitted =>
         /\ wire.body["EffectiveFlags"] = s.EffectiveFlags
         /\ s.EffectiveFlags /= 0
         /\ \A resp \in Responses :
              LET again == SetDeviceState(s, resp)
              IN  /\ again.sent
                  /\ again.req.body["EffectiveFlags"] = wire.body["EffectiveFlags"]

\* a record never fetched: SetTargetTemperature, then two writes, the second
\* answered with success; the record still has flags 0x04 and
\* HasPendingCommand false
C15_Witness ==
  /\ call.op = "SetDeviceState"
  /\ Succeeded
  /\ n = 3
  /\ nreq = 2
  /\ s.EffectiveFlags = 4
  /\ s.HasPendingCommand = FALSE
  /\ s.VaneHorizontal = 0
  /\ wire.body["EffectiveFlags"] = 4

\* the error of SetDeviceState's switch on the device type
UnsupportedDeviceTypeError(err) ==
  /\ err.kind = "error"
  /\ err.prefix = "unsupported device type for SetDeviceState: "

(***************************************************************************)
(* C16: SetDeviceState on a record whose EffectiveFlags is not 0 and whose *)
(* DeviceType is not 0 returns the unsupported-device-type error, naming   *)
(* the type, and a nil result, and issues no HTTP request; when            *)
(* EffectiveFlags is 0 as well, the error is the one of the empty flags.   *)
(***************************************************************************)
C16_UnsupportedTypeRejectedLocally ==
  (call.op = "SetDeviceState" /\ call.pre.DeviceType /= 0) =>
    /\ ret.result.nil
    /\ nreq = call.nreq
    /\ IF call.pre.EffectiveFlags /= 0
         THEN UnsupportedDeviceTypeError(ret.err) /\ ret.err.arg = call.pre.DeviceType
         ELSE NoPendingChangesError(ret.err)

\* the server echoed flags 0x28 on a device of type 1, and the server would
\* have answered the write with success
C16_Witness ==
  /\ call.op = "SetDeviceState"
  /\ call.pre.DeviceType = 1
  /\ call.pre.EffectiveFlags = 40
  /\ call.arg.kind = "ok"
  /\ UnsupportedDeviceTypeError(ret.err)
  /\ nreq = call.nreq

ClientCalls == {"Login", "ListDevices", "GetDeviceState", "SetDeviceState"}

\* the answer the server had for the call
Answer == IF call.op = "Login" THEN call.arg.resp ELSE call.arg

(***************************************************************************)
(* C12: a call of Login, ListDevices, GetDeviceState or SetDeviceState     *)
(* issues no request or one; when the request it issued meets a transport  *)
(* error, a status other than 200 or a body that does not decode, the call *)
(* returns an error and a nil result; and a call returns without an error  *)
(* only after one request that the server answered with 200 and a body     *)
(* that decodes.                                                           *)
(***************************************************************************)
C12_OneRequestFailuresReturned ==
  call.op \in ClientCalls =>
    /\ nreq \in {call.nreq, call.nreq + 1}
    /\ (Transmitted /\ Answer.kind \in FailureKinds) => (Failed /\ ret.result.nil)
    /\ Succeeded => (Transmitted /\ Answer.kind = "ok")
    /\ ~ret.result.nil => Succeeded

\* after a login, ListDevices met a status other than 200
C12_Witness ==
  /\ call.op = "ListDevices"
  /\ call.arg.kind = "statusjson"
  /\ Failed
  /\ ret.result.nil
  /\ call.nreq = 1
  /\ nreq = 2

(***************************************************************************)
(* C14: Login returns either a client and no error or no client and an     *)
(* error; the client it returns holds a token that is not empty and is the *)
(* ContextKey of the answer's LoginData; and with MELCLOUD_EMAIL or        *)
(* MELCLOUD_PASSWORD empty it returns an error without a request.          *)
(***************************************************************************)
C14_LoginClientOrError ==
  call.op = "Login" =>
    /\ \/ Succeeded /\ ~ret.result.nil
       \/ Failed /\ ret.result.nil
    /\ ~ret.result.nil =>
         /\ ret.result.token /= ""
         /\ Transmitted
         /\ "LoginData" \in DOMAIN Answer.body
         /\ "ContextKey" \in DOMAIN Answer.body["LoginData"]
         /\ ret.result.token = Answer.body["LoginData"]["ContextKey"]
    /\ (call.arg.email = "" \/ call.arg.password = "") => (Failed /\ nreq = call.nreq)

\* the password is unset and the server would have answered with a key
C14_Witness ==
  /\ call.op = "Login"
  /\ call.arg.email /= ""
  /\ call.arg.password = ""
  /\ call.arg.resp.kind = "ok"
  /\ Failed
  /\ ret.result.nil
  /\ nreq = call.nreq

(***************************************************************************)
(* C13: whenever ListDevices returns without an error, the slice it        *)
(* returns is not nil, also when the answer holds no building or no        *)
(* device.                                                                 *)
(***************************************************************************)
C13_ListNeverNilWithoutError ==
  (call.op = "ListDevices" /\ Succeeded) => ~ret.result.nil

\* the devices of the answer in the order the loops visit them: per building
\* the structure's devices, its areas', then per floor the floor's devices
\* and its areas'
RECURSIVE Concat(_)
Concat(seqs) == IF seqs = <<>> THEN <<>> ELSE Head(seqs) \o Concat(Tail(seqs))

DevicesOfAreas(areas) == Concat([i \in 1..Len(areas) |-> areas[i].Devices])

DevicesOfFloor(floor) == floor.Devices \o DevicesOfAreas(floor.Areas)

DevicesOfBuilding(building) ==
  LET structure == building.Structure
  IN  structure.Devices \o DevicesOfAreas(structure.Areas)
        \o Concat([i \in 1..Len(structure.Floors) |-> DevicesOfFloor(structure.Floors[i])])

Traversal(buildings) == Concat([i \in 1..Len(buildings) |-> DevicesOfBuilding(buildings[i])])

\* where a DeviceID first occurs
FirstIndex(flat, id) ==
  CHOOSE i \in 1..Len(flat) :
    /\ flat[i].DeviceID = id
    /\ \A j \in 1..(i - 1) : flat[j].DeviceID /= id

(***************************************************************************)
(* C17: the list ListDevices returns holds every DeviceID of the answer,   *)
(* at whatever level it occurs, and holds it once; each entry is the       *)
(* first device with its DeviceID in the order of traversal, and the       *)
(* entries stand in the order of those first occurrences.                  *)
(***************************************************************************)
C17_EachDeviceOnceFirstOccurrence ==
  (call.op = "ListDevices" /\ Succeeded) =>
    LET flat == Traversal(DecodeBuildings(Answer.body))
        out == ret.result.v
    IN  /\ \A i \in 1..Len(out), j \in 1..Len(out) :
             i /= j => out[i].DeviceID /= out[j].DeviceID
        /\ {out[i].DeviceID : i \in 1..Len(out)} = {flat[i].DeviceID : i \in 1..Len(flat)}
        /\ \A i \in 1..Len(out) : out[i] = flat[FirstIndex(flat, out[i].DeviceID)]
        /\ \A i \in 1..Len(out), j \in 1..Len(out) :
             i < j => FirstIndex(flat, out[i].DeviceID) < FirstIndex(flat, out[j].DeviceID)

\* device 1 occurs as "x" in the structure, as "y" in an area and as "x" in
\* an area of a floor, device 2 as "y" in the structure and as "x" on a floor
C17_Witness ==
  /\ call.op = "ListDevices"
  /\ Succeeded
  /\ call.arg.body
       = [null |-> FALSE,
          array |-> <<Building(
            <<[DeviceID |-> 1, BuildingID |-> 3, DeviceName |-> "x"],
              [DeviceID |-> 2, BuildingID |-> 3, DeviceName |-> "y"]>>,
            <<[Devices |-> <<[DeviceID |-> 1, BuildingID |-> 3, DeviceName |-> "y"]>>]>>,
            <<[Devices |-> <<[DeviceID |-> 2, BuildingID |-> 3, DeviceName |-> "x"]>>,
               Areas |-> <<[Devices |->
                            <<[DeviceID |-> 1, BuildingID |-> 3, DeviceName |-> "x"]>>]>>]>>)>>]
  /\ ret.result.v = <<[DeviceID |-> 1, BuildingID |-> 3, DeviceName |-> "x"],
                      [DeviceID |-> 2, BuildingID |-> 3, DeviceName |-> "y"]>>

====
